---- MODULE Spec2Model ----
(***************************************************************************)
(* Model of image_folders.py: the batch planner that groups the files of a *)
(* flat directory by basename, resolves one capture time per group, maps   *)
(* the groups to dated directories and time-derived file names, and copies *)
(* every file to its destination.                                          *)
(*                                                                         *)
(* Strings are sequences of one-character strings, so that concatenation,  *)
(* strip(), splitext() and the lexicographic order of sorted() are the     *)
(* operations of the program and two paths are equal only when they are    *)
(* the same text.  A datetime is the tuple                                 *)
(* <<year, month, day, hour, minute, second, microsecond>>; None is <<>>.  *)
(* A dict is a function; the order in which a dict or a set is iterated    *)
(* is a nondeterministic choice among the remaining elements.              *)
(***************************************************************************)
EXTENDS Integers, Sequences, FiniteSets, TLC

\* ---------------------------------------------------------------- bounds
\* basenames of the general input family
NumBase == 2
\* basenames of the one-bucket input family (sequence letters and overflow)
MaxBucket == 29
\* microseconds after the threshold that a time may have
MaxMicro == 2
\* runs of the program over the same input
MaxRuns == 2

\* --------------------------------------------------------------- strings
Digits == <<"0", "1", "2", "3", "4", "5", "6", "7", "8", "9">>
Upper == <<"A", "B", "C", "D", "E", "F", "G", "H", "I", "J", "K", "L", "M",
           "N", "O", "P", "Q", "R", "S", "T", "U", "V", "W", "X", "Y", "Z">>
Lower == <<"a", "b", "c", "d", "e", "f", "g", "h", "i", "j", "k", "l", "m",
           "n", "o", "p", "q", "r", "s", "t", "u", "v", "w", "x", "y", "z">>
\* the characters used, in code point order
Chars == <<" ", ".", "/">> \o Digits \o Upper \o Lower

Ord(c) == CHOOSE i \in 1..Len(Chars) : Chars[i] = c

\* str.__lt__: lexicographic by code point, a proper prefix is smaller
RECURSIVE StrLess(_, _)
StrLess(a, b) ==
    IF b = <<>> THEN FALSE
    ELSE IF a = <<>> THEN TRUE
    ELSE IF Head(a) = Head(b) THEN StrLess(Tail(a), Tail(b))
    ELSE Ord(Head(a)) < Ord(Head(b))

sep == <<"/">>

IsSpace(c) == c = " "

RECURSIVE LStrip(_)
LStrip(s) == IF s # <<>> /\ IsSpace(Head(s)) THEN LStrip(Tail(s)) ELSE s

RECURSIVE RStrip(_)
RStrip(s) ==
    IF s # <<>> /\ IsSpace(s[Len(s)]) THEN RStrip(SubSeq(s, 1, Len(s) - 1)) ELSE s

\* str.strip(): leading and trailing whitespace removed
strip(s) == RStrip(LStrip(s))

\* str.rfind of one character, 0 when absent (positions are 1-based)
RFind(s, c) ==
    IF \E i \in 1..Len(s) : s[i] = c
    THEN CHOOSE i \in 1..Len(s) : s[i] = c /\ \A j \in (i+1)..Len(s) : s[j] # c
    ELSE 0

\* os.path.splitext: the extension starts at the last dot of the last path
\* component, unless only dots precede it in that component
splitext(p) ==
    LET sepIndex == RFind(p, "/")
        dotIndex == RFind(p, ".")
    IN  IF dotIndex > sepIndex
           /\ \E i \in (sepIndex + 1)..(dotIndex - 1) : p[i] # "."
        THEN <<SubSeq(p, 1, dotIndex - 1), SubSeq(p, dotIndex, Len(p))>>
        ELSE <<p, <<>>>>

Pow10(w) == IF w = 0 THEN 1 ELSE IF w = 1 THEN 10 ELSE IF w = 2 THEN 100 ELSE 1000

\* zero padded decimal of width w, as strftime writes a field
Pad(n, w) == [i \in 1..w |-> Digits[((n \div Pow10(w - i)) % 10) + 1]]

\* ------------------------------------------------------------- datetimes
None == <<>>

\* datetime.__gt__ / __lt__: field by field, most significant first
DtLess(a, b) ==
    \E i \in 1..7 : a[i] < b[i] /\ \A j \in 1..(i - 1) : a[j] = b[j]

DtGreater(a, b) == DtLess(b, a)

min_datetime == <<2015, 1, 1, 0, 0, 0, 0>>

\* dt.strftime('%Y.%m.%d')
StrfDate(dt) == Pad(dt[1], 4) \o <<".">> \o Pad(dt[2], 2) \o <<".">> \o Pad(dt[3], 2)

\* dt.strftime('%Y%m%d%H%M%S'): the microsecond is not written
StrfStamp(dt) ==
    Pad(dt[1], 4) \o Pad(dt[2], 2) \o Pad(dt[3], 2)
    \o Pad(dt[4], 2) \o Pad(dt[5], 2) \o Pad(dt[6], 2)

determine_output_dir(output_dir, dt, event) ==
    LET new_dir == StrfDate(dt)
        ev == strip(event)
    IN  output_dir \o sep \o (IF Len(ev) > 0 THEN new_dir \o <<".">> \o ev ELSE new_dir)

make_name(pfx, dt) == strip(pfx) \o StrfStamp(dt)

\* ------------------------------------------------------------ the inputs
input_directory == <<"i">>

jpg == <<".", "j", "p", "g">>
xmp == <<".", "x", "m", "p">>
NoExt == <<>>

\* the decimal name of the k-th file: "1", "2", ..., "10", ...
Name(k) == IF k < 10 THEN Pad(k, 1) ELSE Pad(k, 2)

\* files = ( input_directory + os.sep + f for f in os.listdir(...) )
FilePath(k, e) == input_directory \o sep \o Name(k) \o e

BeforeMin == <<2014, 12, 31, 23, 59, 59, 0>>

\* times after the threshold: within its second, a second and a day later
AfterMin ==
    {<<2015, 1, 1, 0, 0, 0, u>> : u \in 1..MaxMicro}
    \cup {<<2015, 1, 1, 0, 0, 1, 0>>, <<2015, 1, 2, 0, 0, 0, 0>>}

Times == {BeforeMin, min_datetime} \cup AfterMin

\* strptime('%Y:%m:%d %H:%M:%S') yields whole seconds
ExifTimes == {t \in Times : t[7] = 0}

\* what reading the embedded metadata of a file does
ExifOutcomes ==
    {<<"NotFound">>, <<"ReaderRaises">>, <<"BadDate">>, <<"OpenFails">>}
    \cup {<<"Found", t>> : t \in ExifTimes}

\* ------------------------------------------------------------- the state
VARIABLES
    output_directory, prefix, default_event, pretend,   \* args
    files,          \* the regular files of the input directory
    fs,             \* per file: <<outcome of the metadata read, mtime>>
    disk_dirs,      \* directories that exist under the output root
    disk_files,     \* destination paths written by shutil.copy2
    pc,             \* position in the main script
    error,          \* the exception that ended the run, "" when none
    file_groups, capture_times, output_dirs, output_paths,
    dirs_todo,      \* rest of the loop over set(output_dirs.values())
    gen_state,      \* position inside generate_move_ops
    buckets_todo,   \* rest of the loop over output_paths.items()
    cur_bucket,     \* output_path of the current bucket
    basenames_todo, \* rest of the loop over sorted(basenames)
    cur_basename,
    exts_todo,      \* rest of the loop over file_groups[basename]
    seq_counter,
    opened,         \* files passed to open() by get_exif_date
    errors,         \* files for which logging.error was called
    made,           \* arguments of the make_output_dir calls
    copied,         \* arguments of the copy_file calls, in call order
    run,            \* number of the current run
    first_plan      \* the set of copy_file calls of the previous run

args == <<output_directory, prefix, default_event, pretend>>
env == <<files, fs>>
disk == <<disk_dirs, disk_files>>
plan == <<file_groups, capture_times, output_dirs, output_paths>>
gen == <<gen_state, buckets_todo, cur_bucket, basenames_todo, cur_basename,
         exts_todo, seq_counter>>
logs == <<opened, errors, made, copied>>
vars == <<args, env, disk, pc, error, plan, dirs_todo, gen, logs, run, first_plan>>

EmptyDict == [k \in {} |-> <<>>]

Range(f) == {f[k] : k \in DOMAIN f}

\* --------------------------------------------------------- pure functions
\* group_files: fold over the files, one dict entry per basename
RECURSIVE group_files_from(_, _)
group_files_from(fileset, groups) ==
    IF fileset = {} THEN groups
    ELSE LET f == CHOOSE x \in fileset : TRUE
             basename == splitext(f)[1]
             ext == splitext(f)[2]
             g1 == IF basename \in DOMAIN groups THEN groups
                   ELSE [k \in DOMAIN groups \cup {basename} |->
                            IF k = basename THEN {} ELSE groups[k]]
             g2 == IF Len(ext) > 0
                   THEN [g1 EXCEPT ![basename] = @ \cup {ext}]
                   ELSE g1
         IN  group_files_from(fileset \ {f}, g2)

\* a grouping that records the empty extension like any other
group_files_any_ext(fileset) ==
    [b \in {splitext(f)[1] : f \in fileset} |->
        {splitext(f)[2] : f \in {x \in fileset : splitext(x)[1] = b}}]

group_files(fileset) == group_files_from(fileset, EmptyDict)

\* open(file_path, 'rb') raises
OpenRaises(file_path) == fs[file_path][1] = <<"OpenFails">>

\* logging.error is reached in the except clause
ExifLogsError(file_path) ==
    fs[file_path][1] \in {<<"ReaderRaises">>, <<"BadDate">>}

get_exif_date(file_path) ==
    IF fs[file_path][1][1] = "Found" THEN fs[file_path][1][2] ELSE None

get_date(file_path) ==
    LET exif_date == get_exif_date(file_path)
    IN  IF exif_date # None THEN exif_date ELSE fs[file_path][2]

\* a threshold test that lets the threshold itself pass
AfterOrAtThreshold(dt) == ~DtLess(dt, min_datetime)

\* the filter of line 22
AfterThreshold(dt) == DtGreater(dt, min_datetime)

\* min() of a non-empty collection of datetimes
MinDate(S) == CHOOSE m \in S : \A d \in S : ~DtLess(d, m)

determine_capture_time(basename, extensions) ==
    LET dates == {get_date(basename \o e) : e \in extensions}
        possible_dates == {dt \in dates : dt # None /\ AfterThreshold(dt)}
    IN  IF possible_dates = {} THEN None ELSE MinDate(possible_dates)

\* transpose_dict: fold over the items, one set of keys per value
RECURSIVE transpose_from(_, _, _)
transpose_from(d, keys, ret) ==
    IF keys = {} THEN ret
    ELSE LET k == CHOOSE x \in keys : TRUE
             v == d[k]
             r1 == IF v \in DOMAIN ret THEN ret
                   ELSE [x \in DOMAIN ret \cup {v} |-> IF x = v THEN {} ELSE ret[x]]
         IN  transpose_from(d, keys \ {k}, [r1 EXCEPT ![v] = @ \cup {k}])

transpose_dict(d) == transpose_from(d, DOMAIN d, EmptyDict)

\* sorted(basenames): ascending list
RECURSIVE sorted(_)
sorted(S) ==
    IF S = {} THEN <<>>
    ELSE LET m == CHOOSE x \in S : \A y \in S \ {x} : StrLess(x, y)
         IN  <<m>> \o sorted(S \ {m})

\* a sequence string without the leading blank
seq_without_blank == Upper

\* a sequence string that starts over after 'Z'
seq_wrapping == <<" ">> \o Upper \o Upper

seq == <<" ">> \o Upper

\* a counter that is not reset when a bucket begins
CarriedSeqCounter == seq_counter

InitialSeqCounter == 0

\* a destination that leaves the sequence character out
ToPathWithoutSeq(output_path, counter, ext) == strip(output_path) \o ext

\* to_path = (output_path + seq[seq_counter]).strip() + ext
ToPath(output_path, counter, ext) ==
    strip(output_path \o <<seq[counter + 1]>>) \o ext

\* os.path.dirname
dirname(p) == SubSeq(p, 1, RFind(p, "/") - 1)

\* ------------------------------------------------------- initial states
ProgramStart ==
    /\ pc = "group" /\ error = ""
    /\ file_groups = EmptyDict /\ capture_times = EmptyDict
    /\ output_dirs = EmptyDict /\ output_paths = EmptyDict
    /\ dirs_todo = {}
    /\ gen_state = "idle" /\ buckets_todo = {} /\ cur_bucket = <<>>
    /\ basenames_todo = <<>> /\ cur_basename = <<>> /\ exts_todo = {}
    /\ seq_counter = 0
    /\ opened = {} /\ errors = {} /\ made = {} /\ copied = <<>>

PlainArgs ==
    /\ output_directory = <<"o">> /\ prefix = <<>> /\ default_event = <<>>

\* leading and trailing blanks in every argument that may carry them
BlankArgs ==
    /\ output_directory = <<" ", "o">>
    /\ prefix = <<" ", "j", "d", " ">>
    /\ default_event = <<"t", "r", "i", "p", " ">>

\* an extensionless file is never read; it gets a valid modification time
MetaOfExtensionless == <<<<"NotFound">>, <<2015, 1, 1, 0, 0, 0, 1>>>>

\* one group: every outcome of the metadata read and every time for the
\* photo, every modification time for the sidecar, which embeds no time
InitResolve ==
    /\ PlainArgs /\ pretend = TRUE
    /\ \E exts \in (SUBSET {jpg, xmp}) \ {{}}, bare \in BOOLEAN :
         /\ files = {FilePath(1, e) : e \in exts}
                    \cup (IF bare THEN {FilePath(1, NoExt)} ELSE {})
         /\ \E photo \in ExifOutcomes \X Times, sidecar \in Times :
              fs = [f \in files |->
                      IF splitext(f)[2] = jpg THEN photo
                      ELSE IF splitext(f)[2] = xmp THEN <<<<"NotFound">>, sidecar>>
                      ELSE MetaOfExtensionless]

\* what the input directory may hold of one basename: nothing, a lone
\* extensionless file, an extensionless file next to a photo, a photo with
\* its sidecar, or a photo alone with any modification time
GroupInputs ==
    {<<{}, min_datetime>>, <<{NoExt}, min_datetime>>,
     <<{NoExt, jpg}, <<2015, 1, 1, 0, 0, 0, 1>>>>,
     <<{jpg, xmp}, <<2015, 1, 1, 0, 0, 0, 1>>>>}
    \cup {<<{jpg}, t>> : t \in Times \ {BeforeMin}}

\* up to NumBase groups; the run is a dry run or the arguments are plain
InitPlan ==
    /\ \/ PlainArgs /\ pretend = FALSE
       \/ BlankArgs /\ pretend \in BOOLEAN
    /\ \E inp \in [1..NumBase -> GroupInputs] :
         /\ files = UNION {{FilePath(k, e) : e \in inp[k][1]} : k \in 1..NumBase}
         /\ fs = [f \in files |->
                    LET k == CHOOSE j \in 1..NumBase :
                                 \E e \in inp[j][1] : f = FilePath(j, e)
                    IN  IF splitext(f)[2] = NoExt THEN MetaOfExtensionless
                        ELSE <<<<"NotFound">>, inp[k][2]>>]

\* n groups of one bucket: same second, the first group with a sidecar
InitBucket ==
    /\ PlainArgs /\ pretend = FALSE
    /\ \E n \in 1..MaxBucket :
         /\ files = {FilePath(k, jpg) : k \in 1..n} \cup {FilePath(1, xmp)}
         /\ fs = [f \in files |-> <<<<"Found", <<2015, 1, 1, 0, 0, 1, 0>>>>, BeforeMin>>]

Init ==
    /\ InitResolve \/ InitPlan \/ InitBucket
    /\ disk_dirs = {} /\ disk_files = {}
    /\ run = 1 /\ first_plan = {}
    /\ ProgramStart

\* ------------------------------------------------------------ the script
\* lines 138-141
Group ==
    /\ pc = "group"
    /\ file_groups' = group_files(files)
    /\ pc' = "resolve"
    /\ UNCHANGED <<args, env, disk, error, capture_times, output_dirs, output_paths,
                   dirs_todo, gen, logs, run, first_plan>>

\* the files get_date is called for
InspectedOf(G) == UNION {{b \o e : e \in file_groups[b]} : b \in G}

Inspected == InspectedOf(DOMAIN file_groups)

\* line 143, every open() succeeding
Resolve ==
    /\ pc = "resolve"
    /\ \A f \in Inspected : ~OpenRaises(f)
    /\ capture_times' = [b \in DOMAIN file_groups |->
                            determine_capture_time(b, file_groups[b])]
    /\ opened' = opened \cup Inspected
    /\ errors' = errors \cup {f \in Inspected : ExifLogsError(f)}
    /\ pc' = "filter"
    /\ UNCHANGED <<args, env, disk, error, file_groups, output_dirs, output_paths,
                   dirs_todo, gen, made, copied, run, first_plan>>

\* line 143, an open() raising: the groups G were resolved before, and the
\* files E of the failing group were read before the failing file
ResolveRaises ==
    /\ pc = "resolve"
    /\ \E b \in DOMAIN file_groups : \E e \in file_groups[b] :
         /\ OpenRaises(b \o e)
         /\ \E G \in SUBSET (DOMAIN file_groups \ {b}),
               E \in SUBSET (file_groups[b] \ {e}) :
              /\ \A f \in InspectedOf(G) \cup {b \o x : x \in E} : ~OpenRaises(f)
              /\ opened' = opened \cup InspectedOf(G) \cup {b \o x : x \in E} \cup {b \o e}
              /\ errors' = errors
                    \cup {f \in InspectedOf(G) \cup {b \o x : x \in E} : ExifLogsError(f)}
    /\ pc' = "crashed" /\ error' = "OSError"
    /\ UNCHANGED <<args, env, disk, plan, dirs_todo, gen, made, copied, run, first_plan>>

\* a filter that keeps every group
KeptAlways(basename) == TRUE

\* the condition of the comprehension of line 144
Kept(basename) == capture_times[basename] # None

\* line 144
Filter ==
    /\ pc = "filter"
    /\ file_groups' = [b \in {x \in DOMAIN file_groups : Kept(x)} |-> file_groups[b]]
    /\ pc' = "dirs"
    /\ UNCHANGED <<args, env, disk, error, capture_times, output_dirs, output_paths,
                   dirs_todo, gen, logs, run, first_plan>>

\* line 145
OutputDirs ==
    /\ pc = "dirs"
    /\ output_dirs' = [b \in DOMAIN file_groups |->
          determine_output_dir(output_directory, capture_times[b], default_event)]
    /\ pc' = "paths"
    /\ UNCHANGED <<args, env, disk, error, file_groups, capture_times, output_paths,
                   dirs_todo, gen, logs, run, first_plan>>

\* the parents of the output directories instead of the directories
ParentsOfOutputDirs == {dirname(d) : d \in Range(output_dirs)}

\* set(output_dirs.values()) of line 152
DirsToMake == Range(output_dirs)

\* lines 149-150, and the loop of line 152 set up
OutputPaths ==
    /\ pc = "paths"
    /\ output_paths' = transpose_dict(
          [b \in DOMAIN file_groups |->
              output_dirs[b] \o sep \o make_name(prefix, capture_times[b])])
    /\ dirs_todo' = DirsToMake
    /\ pc' = "mkdir"
    /\ UNCHANGED <<args, env, disk, error, file_groups, capture_times, output_dirs,
                   gen, logs, run, first_plan>>

\* lines 152-153 with make_output_dir, lines 65-70
MakeOutputDir ==
    /\ pc = "mkdir"
    /\ \E d \in dirs_todo :
         /\ dirs_todo' = dirs_todo \ {d}
         /\ made' = made \cup {d}
         /\ disk_dirs' = IF d \notin disk_dirs /\ ~pretend
                         THEN disk_dirs \cup {d} ELSE disk_dirs
    /\ UNCHANGED <<args, env, disk_files, pc, error, plan, gen, opened, errors,
                   copied, run, first_plan>>

\* line 155: the generator is created, nothing of it runs yet
StartCopying ==
    /\ pc = "mkdir" /\ dirs_todo = {}
    /\ pc' = "gen"
    /\ gen_state' = "idle" /\ buckets_todo' = DOMAIN output_paths
    /\ UNCHANGED <<args, env, disk, error, plan, dirs_todo, cur_bucket, basenames_todo,
                   cur_basename, exts_todo, seq_counter, logs, run, first_plan>>

\* ------------------------------------------------- generate_move_ops
\* lines 107-109 and the sorted() of line 112
GenBucket ==
    /\ pc = "gen" /\ gen_state = "idle"
    /\ \E p \in buckets_todo :
         /\ buckets_todo' = buckets_todo \ {p}
         /\ cur_bucket' = p
         /\ basenames_todo' = sorted(output_paths[p])
    /\ seq_counter' = InitialSeqCounter
    /\ gen_state' = "bucket"
    /\ UNCHANGED <<args, env, disk, pc, error, plan, dirs_todo, cur_basename,
                   exts_todo, logs, run, first_plan>>

\* lines 112-113: the next basename of the bucket
GenBasename ==
    /\ pc = "gen" /\ gen_state = "bucket" /\ basenames_todo # <<>>
    /\ cur_basename' = Head(basenames_todo)
    /\ basenames_todo' = Tail(basenames_todo)
    /\ exts_todo' = file_groups[Head(basenames_todo)]
    /\ gen_state' = "basename"
    /\ UNCHANGED <<args, env, disk, pc, error, plan, dirs_todo, buckets_todo,
                   cur_bucket, seq_counter, logs, run, first_plan>>

\* lines 114-116 yield one operation and line 156 copies it (lines 75-79):
\* shutil.copy2 raises when the directory of the destination is missing
GenYield ==
    /\ pc = "gen" /\ gen_state = "basename"
    /\ seq_counter < Len(seq)
    /\ \E ext \in exts_todo :
         LET from_path == cur_basename \o ext
             to_path == ToPath(cur_bucket, seq_counter, ext)
         IN  /\ exts_todo' = exts_todo \ {ext}
             /\ copied' = Append(copied, <<from_path, to_path>>)
             /\ IF pretend
                THEN UNCHANGED <<disk_files, pc, error>>
                ELSE IF dirname(to_path) \in disk_dirs
                THEN /\ disk_files' = disk_files \cup {to_path}
                     /\ UNCHANGED <<pc, error>>
                ELSE /\ pc' = "crashed" /\ error' = "FileNotFoundError"
                     /\ UNCHANGED disk_files
    /\ UNCHANGED <<args, env, disk_dirs, plan, dirs_todo, gen_state, buckets_todo,
                   cur_bucket, basenames_todo, cur_basename, seq_counter,
                   opened, errors, made, run, first_plan>>

\* line 115: seq[seq_counter] past the end of seq
GenIndexError ==
    /\ pc = "gen" /\ gen_state = "basename"
    /\ exts_todo # {}
    /\ seq_counter >= Len(seq)
    /\ pc' = "crashed" /\ error' = "IndexError"
    /\ UNCHANGED <<args, env, disk, plan, dirs_todo, gen, logs, run, first_plan>>

\* line 117
GenAdvance ==
    /\ pc = "gen" /\ gen_state = "basename" /\ exts_todo = {}
    /\ seq_counter' = seq_counter + 1
    /\ gen_state' = "bucket"
    /\ UNCHANGED <<args, env, disk, pc, error, plan, dirs_todo, buckets_todo,
                   cur_bucket, basenames_todo, cur_basename, exts_todo, logs,
                   run, first_plan>>

\* line 112: the basenames of the bucket are exhausted
GenBucketDone ==
    /\ pc = "gen" /\ gen_state = "bucket" /\ basenames_todo = <<>>
    /\ gen_state' = "idle"
    /\ UNCHANGED <<args, env, disk, pc, error, plan, dirs_todo, buckets_todo,
                   cur_bucket, basenames_todo, cur_basename, exts_todo, seq_counter,
                   logs, run, first_plan>>

\* line 107: the buckets are exhausted, the loop of line 155 ends
GenStop ==
    /\ pc = "gen" /\ gen_state = "idle" /\ buckets_todo = {}
    /\ pc' = "done"
    /\ UNCHANGED <<args, env, disk, error, plan, dirs_todo, gen, logs, run, first_plan>>

\* the program is run again over the same input directory
Rerun ==
    /\ pc \in {"done", "crashed"}
    /\ run < MaxRuns
    /\ run' = run + 1
    /\ first_plan' = Range(copied)
    /\ pc' = "group" /\ error' = ""
    /\ file_groups' = EmptyDict /\ capture_times' = EmptyDict
    /\ output_dirs' = EmptyDict /\ output_paths' = EmptyDict
    /\ dirs_todo' = {}
    /\ gen_state' = "idle" /\ buckets_todo' = {} /\ cur_bucket' = <<>>
    /\ basenames_todo' = <<>> /\ cur_basename' = <<>> /\ exts_todo' = {}
    /\ seq_counter' = 0
    /\ opened' = {} /\ errors' = {} /\ made' = {} /\ copied' = <<>>
    /\ UNCHANGED <<args, env, disk>>

Next ==
    \/ Group \/ Resolve \/ ResolveRaises \/ Filter \/ OutputDirs \/ OutputPaths
    \/ MakeOutputDir \/ StartCopying
    \/ GenBucket \/ GenBasename \/ GenYield \/ GenIndexError \/ GenAdvance
    \/ GenBucketDone \/ GenStop
    \/ Rerun

Spec == Init /\ [][Next]_vars

\* ------------------------------------------------- notions of the claims
\* the basenames of the input files, and the extensions each occurs with
Basenames == {splitext(f)[1] : f \in files}

ExtsOf(b) == {splitext(f)[2] : f \in {x \in files : splitext(x)[1] = b}} \ {NoExt}

Extensionless == {f \in files : splitext(f)[2] = NoExt}

\* the candidate of one file: the embedded time when found, else the mtime
Candidate(f) == IF fs[f][1][1] = "Found" THEN fs[f][1][2] ELSE fs[f][2]

\* the candidates of a group that are strictly after the threshold
ValidCandidates(b) ==
    {c \in {Candidate(b \o e) : e \in ExtsOf(b)} : DtLess(min_datetime, c)}

Resolved == pc \notin {"group", "resolve"} /\ error # "OSError"

Planned == pc \in {"mkdir", "gen", "done"} \/ error \in {"IndexError", "FileNotFoundError"}

\* position of a basename among the basenames of its bucket, from 1
Rank(b, p) == Cardinality({x \in output_paths[p] : StrLess(x, b)}) + 1

BucketOf(b) == CHOOSE p \in DOMAIN output_paths : b \in output_paths[p]

RankOfOp(op) == Rank(splitext(op[1])[1], BucketOf(splitext(op[1])[1]))

\* the suffix the k-th basename of a bucket gets: none, then A, B, ...
Suffix(k) == IF k = 1 THEN <<>> ELSE <<Upper[k - 1]>>

Ops == Range(copied)

\* ------------------------------------------------------------------- C1
\* C1 as stated: in a bucket of 1..26 basenames the k-th basename in
\* ascending order gets the k-th letter, the smallest one 'A'.
C1_LettersFromA ==
    \A op \in Ops :
        LET b == splitext(op[1])[1]
            e == splitext(op[1])[2]
            p == BucketOf(b)
        IN  Cardinality(output_paths[p]) <= 26
            => op[2] = LStrip(p) \o <<Upper[Rank(b, p)]>> \o e

\* C1 amended: in a bucket of 1..27 basenames the smallest basename gets no
\* letter (the stem is directly followed by the extension), and the k-th
\* basename in ascending order, k >= 2, gets the (k-1)-th letter.
C1_FirstBareThenLetters ==
    \A op \in Ops :
        LET b == splitext(op[1])[1]
            e == splitext(op[1])[2]
            p == BucketOf(b)
        IN  Cardinality(output_paths[p]) <= 27
            => op[2] = LStrip(p) \o Suffix(Rank(b, p)) \o e

C1_Witness ==
    /\ pc = "done"
    /\ \E p \in DOMAIN output_paths : Cardinality(output_paths[p]) = 27
    /\ \E op \in Ops : RankOfOp(op) = 27 /\ op[2][Len(op[2]) - Len(jpg)] = "Z"
    /\ \E op \in Ops : RankOfOp(op) = 1
                        /\ \E d \in 1..10 : op[2][Len(op[2]) - Len(jpg)] = Digits[d]

\* ------------------------------------------------------------------- C2
\* C2 as stated: a bucket of more than 26 basenames never lets the
\* iteration complete, and no basename beyond the 26th gets a destination.
C2_OverflowAt27 ==
    \A p \in DOMAIN output_paths :
        Cardinality(output_paths[p]) > 26
        => /\ pc # "done"
           /\ \A op \in Ops : BucketOf(splitext(op[1])[1]) = p => RankOfOp(op) <= 26

\* C2 amended: a bucket of more than 27 basenames never lets the iteration
\* complete: IndexError is raised at the 28th basename of the bucket, and no
\* basename beyond the 27th gets a destination; a bucket of exactly 27
\* basenames is handled, its last basename getting 'Z'.
C2_OverflowAt28 ==
    /\ \A p \in DOMAIN output_paths :
        Cardinality(output_paths[p]) > 27
        => /\ pc # "done"
           /\ \A op \in Ops : BucketOf(splitext(op[1])[1]) = p => RankOfOp(op) <= 27
    /\ error = "IndexError"
        => /\ Cardinality(output_paths[cur_bucket]) > 27
           /\ Rank(cur_basename, cur_bucket) = 28
           /\ \A op \in Ops : splitext(op[1])[1] # cur_basename

C2_Witness ==
    /\ error = "IndexError"
    /\ Len(copied) = 28
    /\ Cardinality(output_paths[cur_bucket]) = 29

\* ------------------------------------------------------------------- C3
\* C3: no two emitted operations have the same destination path.
C3_DestinationsDistinct ==
    \A i, j \in 1..Len(copied) : i # j => copied[i][2] # copied[j][2]

C3_Witness ==
    /\ pc = "done"
    /\ \E i, j \in 1..Len(copied) :
         /\ splitext(copied[i][1])[1] # splitext(copied[j][1])[1]
         /\ BucketOf(splitext(copied[i][1])[1]) = BucketOf(splitext(copied[j][1])[1])
         /\ splitext(copied[i][1])[2] = splitext(copied[j][1])[2]

\* ------------------------------------------------------------------- C4
\* C4: the capture time of a group is the earliest of its candidates that
\* are strictly after the threshold (per extension the embedded time when
\* found, else the mtime), and None when no candidate is after it.
C4_EarliestValidCandidate ==
    Resolved =>
        \A b \in DOMAIN capture_times :
            LET r == capture_times[b]
                valid == ValidCandidates(b)
            IN  IF valid = {} THEN r = None
                ELSE r \in valid /\ \A c \in valid : ~DtLess(c, r)

\* an embedded time equal to the threshold hides a later mtime
C4_Witness ==
    /\ Resolved
    /\ \E b \in DOMAIN capture_times :
         /\ capture_times[b] = None
         /\ \E e \in ExtsOf(b) :
              /\ fs[b \o e][1] = <<"Found", min_datetime>>
              /\ DtLess(min_datetime, fs[b \o e][2])

\* ------------------------------------------------------------------- C5
\* C5 as stated: a failure of the metadata read of a file (open fails,
\* the reader raises, the date does not parse) is logged and is local: it
\* never ends the run, and the group is resolved with the mtime.
C5_MetadataFailureIsLocal ==
    /\ error # "OSError"
    /\ Resolved =>
         \A b \in DOMAIN capture_times : \A e \in ExtsOf(b) :
            fs[b \o e][1] \in {<<"OpenFails">>, <<"ReaderRaises">>, <<"BadDate">>}
            => b \o e \in errors

\* ------------------------------------------------------------------- C6
\* every (basename, extension) pair of the plan
TotalOps == Cardinality(InspectedOf(DOMAIN file_groups))

\* C6 as stated: every move operation is computed before the first
\* make_output_dir or copy_file call, and a planning failure leaves no
\* directory made and no file copied.
C6_PlanBeforeEffects ==
    /\ (made # {} \/ copied # <<>>) => pc = "done" \/ Len(copied) = TotalOps
    /\ error = "IndexError" => made = {} /\ copied = <<>> /\ disk_dirs = {}

\* C6 amended: the groups, capture times, output directories and buckets
\* are complete before the first make_output_dir or copy_file call, and
\* every make_output_dir call precedes the first copy_file call; the move
\* operations themselves are produced one at a time, each followed by its
\* copy.
C6_BucketsBeforeEffects ==
    /\ (made # {} \/ copied # <<>>)
        => /\ Planned
           /\ DOMAIN capture_times = Basenames
           /\ DOMAIN file_groups = {b \in Basenames : capture_times[b] # None}
           /\ DOMAIN output_dirs = DOMAIN file_groups
           /\ UNION Range(output_paths) = DOMAIN file_groups
    /\ copied # <<>> => made = Range(output_dirs) /\ dirs_todo = {}

\* an overflow after directories were made and files copied
C6_Witness ==
    /\ error = "IndexError"
    /\ made # {} /\ disk_dirs # {}
    /\ Len(copied) = 28 /\ Cardinality(disk_files) = 28

\* ------------------------------------------------------------------- C7
\* C7: a group whose capture time is None has no output directory, is in
\* no bucket, adds no directory to make, is the source of no operation and
\* takes no sequence position.
C7_NoneGroupsDropped ==
    pc \notin {"group", "resolve", "filter"} =>
        \A b \in DOMAIN capture_times :
            capture_times[b] = None
            => /\ b \notin DOMAIN file_groups
               /\ b \notin DOMAIN output_dirs
               /\ \A p \in DOMAIN output_paths : b \notin output_paths[p]
               /\ \A op \in Ops : splitext(op[1])[1] # b
               /\ cur_basename # b
               /\ \A i \in 1..Len(basenames_todo) : basenames_todo[i] # b
               /\ \A d \in made \cup dirs_todo :
                    \E x \in DOMAIN capture_times :
                        /\ capture_times[x] # None
                        /\ d = output_directory \o sep \o StrfDate(capture_times[x])
                               \o (IF strip(default_event) = <<>> THEN <<>>
                                   ELSE <<".">> \o strip(default_event))

C7_Witness ==
    /\ pc = "done"
    /\ copied # <<>>
    /\ \E b \in DOMAIN capture_times : capture_times[b] = None /\ ExtsOf(b) # {}

\* ------------------------------------------------------------------- C8
\* C8 as stated: every emitted operation copies basename+extension of a
\* kept group to output directory + stem + sequence suffix + the same
\* extension, every pair is emitted once, and all of them at completion.
C8_OnePerPairUnderOutputDir ==
    /\ \A i \in 1..Len(copied) :
         LET b == splitext(copied[i][1])[1]
             e == splitext(copied[i][1])[2]
         IN  /\ b \in DOMAIN file_groups /\ e \in file_groups[b]
             /\ copied[i][2] = output_dirs[b] \o sep
                    \o make_name(prefix, capture_times[b])
                    \o Suffix(Rank(b, BucketOf(b))) \o e
             /\ \A j \in 1..Len(copied) : copied[j][1] = copied[i][1] => j = i
    /\ pc = "done" => {op[1] : op \in Ops} = InspectedOf(DOMAIN file_groups)

\* ------------------------------------------------------------------- C9
\* C9: a second run over the same input gives every source path the
\* destination the first run gave it, and a completed second run emits the
\* operations of the first, whatever the order of emission.
C9_SameAssignmentOnRerun ==
    /\ \A op \in Ops : \A op1 \in first_plan :
         op1[1] = op[1] => op1[2] = op[2]
    /\ run > 1 /\ pc = "done" => Ops = first_plan

\* a completed second run with two buckets and a group of two files
C9_Witness ==
    /\ run = 2 /\ pc = "done"
    /\ Cardinality(DOMAIN output_paths) >= 2
    /\ \E b \in DOMAIN file_groups : Cardinality(file_groups[b]) = 2
    /\ first_plan = Ops

\* ------------------------------------------------------------------ C10
\* C10: an extensionless file is never opened and never the source of an
\* operation; its basename is grouped without an extension entry, a group
\* without extensions resolves to None, and only files with an extension
\* are emitted.
C10_ExtensionlessNeverCopied ==
    /\ \A f \in Extensionless :
         /\ f \notin opened
         /\ \A op \in Ops : op[1] # f
         /\ pc \in {"resolve", "filter"}
              => f \in DOMAIN file_groups /\ NoExt \notin file_groups[f]
    /\ \A op \in Ops : op[1] \in files \ Extensionless
    /\ opened \subseteq files \ Extensionless
    /\ Resolved =>
         \A b \in DOMAIN capture_times : ExtsOf(b) = {} => capture_times[b] = None

\* an extensionless file next to a copied file of the same basename
C10_Witness ==
    /\ pc = "done"
    /\ \E f \in Extensionless : \E op \in Ops : op[1] = f \o jpg

====
